---- MODULE Spec2Model ----
(***************************************************************************)
(* mlpack::kernel::LMetric<t_pow, t_take_root>::Evaluate                   *)
(* (src/mlpack/core/kernels/lmetric.hpp).                                  *)
(*                                                                         *)
(* Evaluate works on C++ doubles, so the model carries IEEE-754 binary64   *)
(* values: a double is a record [neg, m, e] of value (-1)^neg * m * 2^e    *)
(* with m an odd natural number of at most 53 bits (or 0), and every       *)
(* operation rounds to nearest, ties to even.  Mantissas do not fit TLC's  *)
(* 32-bit integers, so m is a little-endian sequence of 15-bit limbs.      *)
(* The arithmetic operators round correctly.  pow() is the C library's: it *)
(* is a function of its arguments, accurate but not correctly rounded, so  *)
(* the model admits for pow(x, y) every double within 1/2 + 1/16 of a unit *)
(* in the last place of the exact power, and the variable libm records the *)
(* values it has returned.  A value read past the end of a vector is       *)
(* indeterminate: Indet stands for any double at all (infinities,          *)
(* subnormals and NaN included), and so does every result computed from    *)
(* it.  The vectors themselves hold bounded integers, so the determinate   *)
(* values never are infinite, subnormal or a negative zero.                *)
(***************************************************************************)
EXTENDS Integers, Sequences, FiniteSets, TLC

VARIABLES mem, t_pow, t_take_root, a, b, pc, i, sum, ret, reads, oob, libm

vars == <<mem, t_pow, t_take_root, a, b, pc, i, sum, ret, reads, oob, libm>>

----------------------------------------------------------------------------
(* Natural numbers of any size: little-endian limbs, no leading zero limb. *)

LimbBits == 15
Base == 2^LimbBits
\* bits of a double's significand
MantBits == 53

\* TRUE for every value.  TLC evaluates an operator's argument where it is first
\* used; testing Known(v) evaluates v on the spot, which keeps the nesting of
\* evaluations, and with it TLC's stack, shallow.
Known(v) == v = v

BnLow(u) == IF u = <<>> THEN 0 ELSE Head(u)
BnCons(d, u) == IF d = 0 /\ u = <<>> THEN <<>> ELSE <<d>> \o u
\* limb k of u, 0 above its length
BnAt(u, k) == IF k <= Len(u) THEN u[k] ELSE 0
\* u without its leading zero limbs
BnTrim(u) ==
  LET nz == {k \in 1 .. Len(u) : u[k] # 0}
  IN  SubSeq(u, 1, IF nz = {} THEN 0 ELSE CHOOSE k \in nz : \A j \in nz : j <= k)

RECURSIVE BnFromInt(_)
BnFromInt(n) == IF n = 0 THEN <<>> ELSE BnCons(n % Base, BnFromInt(n \div Base))

\* u + v: limb k takes a carry when a limb below it overflows and every limb
\* between is full
BnAdd(u, v) ==
  LET n == IF Len(u) < Len(v) THEN Len(v) ELSE Len(u)
      S(k) == BnAt(u, k) + BnAt(v, k)
      Carry(k) == \E j \in 1 .. k - 1 :
                    S(j) >= Base /\ \A l \in j + 1 .. k - 1 : S(l) = Base - 1
  IN  BnTrim(SubSeq([k \in 1 .. n + 1 |-> (S(k) + IF Carry(k) THEN 1 ELSE 0) % Base],
                    1, n + 1))

\* u - v for u >= v: limb k lends when a limb below it underflows and every limb
\* between is level
BnSub(u, v) ==
  LET D(k) == BnAt(u, k) - BnAt(v, k)
      Borrow(k) == \E j \in 1 .. k - 1 :
                     D(j) < 0 /\ \A l \in j + 1 .. k - 1 : D(l) = 0
  IN  BnTrim(SubSeq([k \in 1 .. Len(u) |-> (D(k) - IF Borrow(k) THEN 1 ELSE 0) % Base],
                    1, Len(u)))

\* u * d for 0 <= d < Base: the low halves of the limb products plus the high
\* halves one limb up
BnMulSmall(u, d) ==
  BnAdd(SubSeq([k \in 1 .. Len(u) |-> (u[k] * d) % Base], 1, Len(u)),
        <<0>> \o SubSeq([k \in 1 .. Len(u) |-> (u[k] * d) \div Base], 1, Len(u)))

\* u * (limbs lo .. hi of v), by halves
RECURSIVE BnMulRange(_, _, _, _)
BnMulRange(u, v, lo, hi) ==
  IF lo = hi THEN BnMulSmall(u, v[lo])
  ELSE LET mid == (lo + hi) \div 2
           low == BnMulRange(u, v, lo, mid)
           high == BnMulRange(u, v, mid + 1, hi)
       IN  IF Known(low) /\ Known(high)
           THEN BnAdd(low, SubSeq([k \in 1 .. mid - lo + 1 |-> 0], 1, mid - lo + 1) \o high)
           ELSE <<>>
BnMul(u, v) ==
  IF u = <<>> \/ v = <<>> THEN <<>>
  ELSE IF Len(u) < Len(v) THEN BnMulRange(v, u, 1, Len(u))
  ELSE BnMulRange(u, v, 1, Len(v))

RECURSIVE BnPow(_, _)
BnPow(u, n) == IF n = 0 THEN <<1>> ELSE IF n = 1 THEN u ELSE BnMul(u, BnPow(u, n - 1))

\* -1, 0 or 1 as u is below, equal to or above v: decided by the highest limb
\* in which they differ
BnCmp(u, v) ==
  IF Len(u) < Len(v) THEN -1
  ELSE IF Len(u) > Len(v) THEN 1
  ELSE LET df == {k \in 1 .. Len(u) : u[k] # v[k]}
       IN  IF df = {} THEN 0
           ELSE IF \E k \in df : u[k] < v[k] /\ \A j \in df : j <= k THEN -1 ELSE 1
BnLe(u, v) == BnCmp(u, v) <= 0

\* u * 2^k
BnShl(u, k) ==
  IF u = <<>> THEN <<>>
  ELSE SubSeq([j \in 1 .. k \div LimbBits |-> 0], 1, k \div LimbBits)
         \o BnMulSmall(u, 2^(k % LimbBits))

\* floor(u / d) for a power of two d < Base
BnShrBits(u, d) ==
  BnTrim(SubSeq([k \in 1 .. Len(u) |->
                   (u[k] \div d) + (BnAt(u, k + 1) % d) * (Base \div d)], 1, Len(u)))
\* floor(u / 2^k)
BnShr(u, k) ==
  IF k \div LimbBits >= Len(u) THEN <<>>
  ELSE BnShrBits(SubSeq(u, k \div LimbBits + 1, Len(u)), 2^(k % LimbBits))

\* <<floor(u / d), u mod d>> for 0 < d < Base
RECURSIVE BnDivRem(_, _)
BnDivRem(u, d) ==
  IF u = <<>> THEN <<(<<>>), 0>>
  ELSE LET hi == BnDivRem(Tail(u), d)
           cur == hi[2] * Base + Head(u)
       IN  <<BnCons(cur \div d, hi[1]), cur % d>>

RECURSIVE IntBitLen(_)
IntBitLen(n) == IF n = 0 THEN 0 ELSE 1 + IntBitLen(n \div 2)
BnBitLen(u) == IF u = <<>> THEN 0 ELSE LimbBits * (Len(u) - 1) + IntBitLen(u[Len(u)])

RECURSIVE IntTz(_)
IntTz(n) == IF n % 2 = 1 THEN 0 ELSE 1 + IntTz(n \div 2)
\* number of trailing zero bits of u > 0
RECURSIVE BnTz(_)
BnTz(u) == IF Head(u) = 0 THEN LimbBits + BnTz(Tail(u)) ELSE IntTz(Head(u))

\* bits hi down to lo of floor(n^(1/p)), above the bits already in r: the upper
\* half of the bits, then the lower half
RECURSIVE BnRootBits(_, _, _, _, _)
BnRootBits(n, p, r, hi, lo) ==
  IF hi = lo
  THEN LET t == BnAdd(r, BnShl(<<1>>, lo))
       IN  IF BnLe(BnPow(t, p), n) THEN t ELSE r
  ELSE LET mid == (hi + lo + 1) \div 2
           up == BnRootBits(n, p, r, hi, mid)
       IN  IF Known(up) THEN BnRootBits(n, p, up, mid - 1, lo) ELSE up
\* floor(n^(1/p))
BnRoot(n, p) == BnRootBits(n, p, <<>>, BnBitLen(n) \div p, 0)

----------------------------------------------------------------------------
(* Doubles.                                                                *)

Zero == [neg |-> FALSE, m |-> <<>>, e |-> 0]
NaN == [neg |-> FALSE, m |-> <<>>, e |-> 1]
IsNaN(x) == x = NaN
\* an indeterminate double: any value at all
Indet == [neg |-> FALSE, m |-> <<>>, e |-> 2]
IsIndet(x) == x = Indet
\* x is a determinate number
IsNum(x) == ~IsNaN(x) /\ ~IsIndet(x)

\* the double m * 2^e of an exactly representable m * 2^e >= 0
DNorm(m, e) ==
  IF m = <<>> THEN Zero
  ELSE LET z == BnTz(m) IN [neg |-> FALSE, m |-> BnShr(m, z), e |-> e + z]
\* m * 2^e >= 0 rounded to a double, to nearest, ties to even
DRound(m, e) ==
  LET n == BnBitLen(m) IN
  IF n <= MantBits THEN DNorm(m, e)
  ELSE LET k == n - MantBits
           q == BnShr(m, k)
           rem == BnSub(m, BnShl(q, k))
           c == BnCmp(rem, BnShl(<<1>>, k - 1))
           up == c > 0 \/ (c = 0 /\ Head(q) % 2 = 1)
       IN  DNorm(IF up THEN BnAdd(q, <<1>>) ELSE q, e + k)
\* the accuracy of the library's pow: within 1/2 + 1/2^SlackBits of a unit in
\* the last place
SlackBits == 4
\* the doubles that near the value v: v = m * 2^e when ~sticky, and m * 2^e < v
\* < (m + 1) * 2^e, m of at least MantBits + SlackBits bits, when sticky.  With
\* q the leading MantBits bits of v and j the next SlackBits bits, q is near
\* enough when the rest is at most 1/2 + 1/2^SlackBits, q + 1 when it is at
\* least 1/2 - 1/2^SlackBits
DNearBits(q, rem, k, sticky, e) ==
  LET top == BnShr(rem, k - SlackBits)
      j == BnLow(top)
      st == sticky \/ BnShl(top, k - SlackBits) # rem
      half == 2^(SlackBits - 1)
      lowOk == j <= half \/ (j = half + 1 /\ ~st)
      highOk == j >= half - 1 /\ (j > 0 \/ st)
  IN  {DNorm(q, e) : z \in IF lowOk THEN {0} ELSE {}}
        \cup {DNorm(BnAdd(q, <<1>>), e) : z \in IF highOk THEN {0} ELSE {}}
DNearSplit(w, k, sticky, e) ==
  DNearBits(BnShr(w, k), BnSub(w, BnShl(BnShr(w, k), k)), k, sticky, e + k)
DNear(m, sticky, e) ==
  LET n == BnBitLen(m)
      g == IF n < MantBits + SlackBits THEN MantBits + SlackBits - n ELSE 0
  IN  IF ~sticky /\ n <= MantBits THEN {DNorm(m, e)}
      ELSE DNearSplit(BnShl(m, g), n + g - MantBits, sticky, e - g)
Signed(s, x) == IF x.m = <<>> THEN x ELSE [x EXCEPT !.neg = s]

\* conversion of an integer to double
FromInt(n) == IF n < 0 THEN Signed(TRUE, DRound(BnFromInt(-n), 0))
              ELSE DRound(BnFromInt(n), 0)
One == FromInt(1)

Sgn(x) == IF x.m = <<>> THEN 0 ELSE IF x.neg THEN -1 ELSE 1
MagCmp(x, y) ==
  LET e == IF x.e < y.e THEN x.e ELSE y.e
  IN  BnCmp(BnShl(x.m, x.e - e), BnShl(y.m, y.e - e))
\* -1, 0 or 1 as x is below, equal to or above y (neither is NaN)
DCmp(x, y) ==
  IF Sgn(x) # Sgn(y) THEN (IF Sgn(x) < Sgn(y) THEN -1 ELSE 1)
  ELSE IF Sgn(x) = 0 THEN 0
  ELSE Sgn(x) * MagCmp(x, y)
\* the C++ comparisons x <= y, x < y, x == y: false when an operand is NaN, and
\* not known to hold when one is indeterminate
DLe(x, y) == IsNum(x) /\ IsNum(y) /\ DCmp(x, y) <= 0
DLt(x, y) == IsNum(x) /\ IsNum(y) /\ DCmp(x, y) < 0
DEq(x, y) == IsNum(x) /\ IsNum(y) /\ x = y

\* x + y
DAdd(x, y) ==
  IF IsIndet(x) \/ IsIndet(y) THEN Indet
  ELSE IF IsNaN(x) \/ IsNaN(y) THEN NaN
  ELSE LET e == IF x.e < y.e THEN x.e ELSE y.e
           mx == BnShl(x.m, x.e - e)
           my == BnShl(y.m, y.e - e)
           c == BnCmp(mx, my)
       IN  IF x.neg = y.neg THEN Signed(x.neg, DRound(BnAdd(mx, my), e))
           ELSE IF c = 0 THEN Zero
           ELSE IF c > 0 THEN Signed(x.neg, DRound(BnSub(mx, my), e))
           ELSE Signed(y.neg, DRound(BnSub(my, mx), e))
DNeg(x) == Signed(~x.neg, x)
\* x - y
DSub(x, y) == DAdd(x, DNeg(y))
\* x * y
DMul(x, y) ==
  IF IsIndet(x) \/ IsIndet(y) THEN Indet
  ELSE IF IsNaN(x) \/ IsNaN(y) THEN NaN
  ELSE Signed(x.neg # y.neg, DRound(BnMul(x.m, y.m), x.e + y.e))

\* fabs(x)
\* fabs left out: the variant the symmetry of the metric is tested against
fabsDropped(x) == x
fabs(x) == [x EXCEPT !.neg = FALSE]

\* 1.0 / p for an integer p >= 1
\* 1 / t_pow in integer arithmetic: the variant the root is tested against
RecipInt(p) == FromInt(1 \div p)
Recip(p) ==
  LET k == MantBits + IntBitLen(p)
      qr == BnDivRem(BnShl(<<1>>, k), p)
  IN  DRound(BnAdd(BnShl(qr[1], 1), IF qr[2] = 0 THEN <<>> ELSE <<1>>), -k - 1)

\* the values of pow(x, n) for a positive integer n
PowInt(x, n) ==
  {Signed(x.neg /\ n % 2 = 1, r) : r \in DNear(BnPow(x.m, n), FALSE, n * x.e)}

----------------------------------------------------------------------------
(* pow(x, y) for the two kinds of exponent Evaluate passes: the integer    *)
(* t_pow, and 1.0 / t_pow.                                                 *)

\* ln is bracketed through the binary logarithm: LnBits fraction bits, found by
\* repeated squaring of a LnWork-bit fraction, times bounds of ln 2 * 2^Ln2Scale
LnBits == 32
LnWork == 64
Ln2Scale == 45
Ln2Lo == <<31289, 1533, 22713>>
Ln2Hi == <<31290, 1533, 22713>>

\* one squaring step on the fraction f in [1, 2) scaled by 2^LnWork and the bits
\* found so far, truncating (up = FALSE) or rounding up: g is f * f
Log2Shift(g, bits, up) ==
  IF BnBitLen(g) > LnWork + 1
  THEN <<IF up /\ Head(g) % 2 = 1 THEN BnAdd(BnShr(g, 1), <<1>>) ELSE BnShr(g, 1),
         BnAdd(BnShl(bits, 1), <<1>>)>>
  ELSE <<g, BnShl(bits, 1)>>
Log2Trunc(sq, lo, bits, up) ==
  Log2Shift(IF up /\ BnShl(lo, LnWork) # sq THEN BnAdd(lo, <<1>>) ELSE lo, bits, up)
Log2Square(sq, bits, up) == Log2Trunc(sq, BnShr(sq, LnWork), bits, up)
Log2Step(s, up) == Log2Square(BnMul(s[1], s[1]), s[2], up)
\* j steps, by halves
RECURSIVE Log2Steps(_, _, _)
Log2Steps(s, j, up) ==
  IF j = 1 THEN Log2Step(s, up)
  ELSE LET h == Log2Steps(s, j \div 2, up)
       IN  IF Known(h) THEN Log2Steps(h, j - j \div 2, up) ELSE h
\* the first LnBits fraction bits of log2(f), f = s[1] / 2^LnWork
Log2Frac(s, up) == Log2Steps(s, LnBits, up)[2]

\* a lower (up = FALSE) or upper bound of ln(x) * 2^(LnBits + Ln2Scale), x >= 1
LnBound(x, up) ==
  LET n == BnBitLen(x.m)
      whole == BnShl(BnFromInt(n - 1 + x.e), LnBits)
      frac == Log2Frac(<<BnShl(x.m, LnWork - (n - 1)), <<>>>>, up)
      l2 == BnAdd(whole, IF up THEN BnAdd(frac, <<1>>) ELSE frac)
  IN  BnMul(l2, IF up THEN Ln2Hi ELSE Ln2Lo)

\* the values of pow(x, 1.0 / p) for x > 1 and p >= 2.  With y = 1.0 / p =
\* y.m / 2^K and N = x * 2^(p*t), the exact power lies in [H, H + 1) / 2^t for
\* H = floor(N^y / 2^(t * (p*y - 1))).  When 1.0 / p is exact that is
\* floor(N^(1/p)), the power being H / 2^t iff H^p = N.  Otherwise x^y =
\* x^(1/p) * exp(-+rho * ln x / (p * 2^K)), rho = |2^K - p * y.m|, and H is the
\* candidate near R = floor(N^(1/p)) whose p-th power brackets N under the
\* bounds of ln x.
RootGood(p, an, cLo, cHi, h) ==
  /\ BnCmp(an, BnMul(cHi, BnPow(h, p))) > 0
  /\ BnCmp(an, BnMul(cLo, BnPow(BnAdd(h, <<1>>), p))) < 0
RootPick(p, t, an, cLo, cHi, h0) ==
  LET j == CHOOSE n \in 0 .. 4 : RootGood(p, an, cLo, cHi, BnAdd(h0, BnFromInt(n)))
  IN  DNear(BnAdd(h0, BnFromInt(j)), TRUE, -t)
RootNear(p, t, sgn, r, big, an, uLo, uHi, d) ==
  LET cLo == IF sgn > 0 THEN BnAdd(big, uLo) ELSE BnSub(big, uLo)
      cHi == BnAdd(IF sgn > 0 THEN BnAdd(big, uHi) ELSE BnSub(big, uHi), <<1>>)
      h0 == BnSub(IF sgn > 0 THEN BnSub(r, d) ELSE BnAdd(r, d), <<2>>)
  IN  IF Known(cLo) /\ Known(cHi) /\ Known(h0)
      THEN RootPick(p, t, an, cLo, cHi, h0)
      ELSE {}
RootBounds(x, p, t, sgn, rho, n, r, sh) ==
  LET big == BnShl(<<1>>, sh)
      an == BnShl(n, sh)
      uLo == BnMul(rho, LnBound(x, sgn < 0))
      uHi == BnMul(rho, LnBound(x, sgn > 0))
  IN  IF Known(big) /\ Known(an) /\ Known(uLo) /\ Known(uHi)
      THEN RootNear(p, t, sgn, r, big, an, uLo, uHi,
                    BnDivRem(BnShr(BnMul(r, uLo), sh), p)[1])
      ELSE {}
RootOf(x, p, t, sgn, rho, n, r, sh) ==
  IF sgn = 0
  THEN DNear(r, BnPow(r, p) # n, -t)
  ELSE RootBounds(x, p, t, sgn, rho, n, r, sh)
RootSigned(x, p, t, one, py, sh) ==
  LET sgn == BnCmp(one, py)
      rho == IF BnLe(py, one) THEN BnSub(one, py) ELSE BnSub(py, one)
      n == BnShl(x.m, x.e + p * t)
      r == BnRoot(BnShl(x.m, x.e + p * t), p)
  IN  IF Known(sgn) /\ Known(rho) /\ Known(n) /\ Known(r)
      THEN RootOf(x, p, t, sgn, rho, n, r, sh)
      ELSE {}
\* the scaling t: enough for MantBits + SlackBits bits of root, and N an integer
RootScale(x, p) ==
  LET t0 == MantBits + SlackBits - ((BnBitLen(x.m) + x.e - 1) \div p)
      t1 == -(x.e \div p)
  IN  IF t0 > t1 THEN t0 ELSE t1
PowRecip(x, p, y) ==
  LET t == RootScale(x, p)
      one == BnShl(<<1>>, -y.e)
      py == BnMulSmall(y.m, p)
  IN  IF Known(t) /\ Known(one) /\ Known(py)
      THEN RootSigned(x, p, t, one, py, -y.e + LnBits + Ln2Scale)
      ELSE {}
PowRoot(x, p) == IF x = One THEN {One} ELSE PowRecip(x, p, Recip(p))

\* the p with 1.0 / p = y, for a y in (0, 1) that is such a quotient
RootIndex(y) ==
  LET k == -y.e - BnBitLen(y.m)
  IN  CHOOSE p \in 2^k .. 2^(k + 1) : Recip(p) = y

\* the values pow(x, y) can have, for y = 0, y a positive integer, or y =
\* 1.0 / p: one value where the power is a double or far enough from the middle
\* of two, else both neighbours
pow(x, y) ==
  IF y = Zero \/ x = One THEN {One}
  ELSE IF IsIndet(x) THEN {Indet}
  ELSE IF IsNaN(x) \/ IsNaN(y) THEN {NaN}
  ELSE IF y.e >= 0 THEN PowInt(x, BnLow(y.m) * 2^y.e)
  ELSE IF x.m = <<>> THEN {Zero}
  ELSE IF x.neg THEN {NaN}
  ELSE PowRoot(x, RootIndex(y))

----------------------------------------------------------------------------
(* Evaluate.  Each call c has its own locals i[c] and sum[c]; its reference *)
(* parameters a[c] and b[c] name vectors in the caller's memory mem.        *)

MaxLen == 2
MaxPow == 3
MaxScale == 3

Coords == {0, 3, 4}
Powers == 1 .. MaxPow
Vectors == UNION {[1 .. n -> Coords] : n \in 0 .. MaxLen}

\* v[k] of an arma::vec: no bounds check, index from 0
Elem(v, k) == FromInt(v[k + 1])
\* what reading v[k] can do: inside the vector it yields the element; past its
\* end the behaviour is undefined, the read yields whatever lies there, any
\* double, or traps
ReadElem(v, k) ==
  IF k < Len(v) THEN {[trap |-> FALSE, val |-> Elem(v, k)]}
  ELSE {[trap |-> FALSE, val |-> Indet], [trap |-> TRUE, val |-> Indet]}

\* the library before any call of pow
NoLib == [k \in {} |-> Zero]
\* a call pow(x, y) under the library f, vals being the values pow(x, y) can
\* have: the value f has returned for (x, y) before, else any of vals, which f
\* returns from then on.  The outcomes are pairs of a value and a library.
Libm(f, x, y, vals) ==
  IF <<x, y>> \in DOMAIN f THEN {[val |-> f[<<x, y>>], lib |-> f]}
  ELSE {[val |-> r, lib |-> f @@ (<<x, y>> :> r)] : r \in vals}

\* variants with one slip each, which the properties below are tested against:
\* sum starting at 1, a loop that stops one short, a loop bounded by the
\* shorter vector, a term without fabs, sum -= term, and a sum shared by all calls
SumInitOne == One
LoopCondShort(k, n) == k + 1 < n
LoopBoundMin(va, vb) == IF Len(vb) < Len(va) THEN Len(vb) ELSE Len(va)
TermSigned(f, x, y, p) == Libm(f, DSub(x, y), FromInt(p), pow(DSub(x, y), FromInt(p)))
AccumulateMinus(s, c, t) == [s EXCEPT ![c] = DSub(s[c], t)]
AccumulateShared(s, c, t) == [d \in DOMAIN s |-> DAdd(s[d], t)]

\* double sum = 0
SumInit == Zero
\* the bound of the loop, a.n_elem: b's length plays no part
LoopBound(va, vb) == Len(va)
\* i < a.n_elem
LoopCond(k, n) == k < n
\* pow(fabs(a[i] - b[i]), t_pow) under the library f
Term(f, x, y, p) ==
  Libm(f, fabs(DSub(x, y)), FromInt(p), pow(fabs(DSub(x, y)), FromInt(p)))
\* sum += term, on the local of call c
Accumulate(s, c, t) == [s EXCEPT ![c] = DAdd(s[c], t)]

\* the loop of Evaluate from index k on, sum being s, under the library f: its
\* outcomes, pairs of the final sum and the library
RECURSIVE SumFrom(_, _, _, _, _, _)
SumFrom(f, va, vb, p, k, s) ==
  IF ~LoopCond(k, LoopBound(va, vb)) THEN {[val |-> s, lib |-> f]}
  ELSE UNION {SumFrom(t.lib, va, vb, p, k + 1, DAdd(s, t.val)) :
                t \in Term(f, Elem(va, k), Elem(vb, k), p)}

\* the inputs beside the small vectors: a coordinate whose cube lies midway
\* between two doubles, coordinates of 2^26, whose squares need all 53 bits,
\* and pairs next to their multiples by k
TieMems ==
  {[x |-> <<208069>>, y |-> <<0>>], [x |-> <<0, 3>>, y |-> <<208069, 4>>]}
Mems == [{"x", "y"} -> Vectors] \cup TieMems
Big == 2^26
ConcVectors == {<<0, 0>>, <<3, 4>>, <<4, 0>>, <<208069, 3>>}
PairVecs == {<<0, 0>>, <<1, 1>>, <<1, 0>>, <<3, 4>>, <<4, 3>>}
Scale(k, v) == [j \in 1 .. Len(v) |-> k * v[j]]
ScaledMems ==
  {[x |-> u, y |-> v, z |-> Scale(k, u), w |-> Scale(k, v)] :
     u \in PairVecs, v \in PairVecs, k \in -MaxScale .. MaxScale}
OrderMems ==
  {[x |-> u, y |-> <<0, 0>>, z |-> v, w |-> <<0, 0>>] : u \in PairVecs, v \in PairVecs}
WideMems ==
  {[x |-> <<Big, u>>, y |-> <<0, 0>>, z |-> <<Big, v>>, w |-> <<0, 0>>] :
     u \in {0, 1, 3}, v \in {0, 1, 3}}
PairMems == ScaledMems \cup OrderMems \cup WideMems

\* the values of pow(sum, 1.0 / t_pow) are costly to compute, so they are
\* tabulated once for the sums of the inputs above; TabPow is pow, read from the
\* table where it can be
TabInputs ==
  {k \in (Vectors \X Vectors) \cup (ConcVectors \X ConcVectors) : Len(k[1]) = Len(k[2])}
    \cup {<<m.x, m.y>> : m \in PairMems \cup TieMems} \cup {<<m.z, m.w>> : m \in PairMems}
TabArgs ==
  UNION {{<<o.val, Recip(p)>> : o \in SumFrom(NoLib, k[1], k[2], p, 0, SumInit)} :
           k \in TabInputs, p \in 2 .. MaxPow}
PowTable == [k \in TabArgs |-> pow(k[1], k[2])]
TabPow(x, y) == IF <<x, y>> \in DOMAIN PowTable THEN PowTable[<<x, y>>] ELSE pow(x, y)

\* the root left out: the variant the scaling law is tested against
ResultNoRoot(f, s, p, root) == {[val |-> s, lib |-> f]}
\* if (!t_take_root) return sum; return pow(sum, (1.0 / t_pow));
Result(f, s, p, root) ==
  IF ~root THEN {[val |-> s, lib |-> f]}
  ELSE Libm(f, s, Recip(p), TabPow(s, Recip(p)))

\* LMetric<p, root>::Evaluate(va, vb) under the library f, for vb no shorter
\* than va: its outcomes, pairs of the value returned and the library
Evaluate(f, va, vb, p, root) ==
  UNION {Result(o.lib, o.val, p, root) : o \in SumFrom(f, va, vb, p, 0, SumInit)}

\* the calls that can be in progress at a time; the caller makes those in DOMAIN a
Calls == {1, 2}
VecA(c) == mem[a[c]]
VecB(c) == mem[b[c]]

\* entry: the locals of the call come to exist, sum = 0 and i = 0
Call(c) ==
  /\ c \in DOMAIN a
  /\ pc[c] = "idle"
  /\ pc' = [pc EXCEPT ![c] = "loop"]
  /\ sum' = [sum EXCEPT ![c] = SumInit]
  /\ i' = [i EXCEPT ![c] = 0]
  /\ UNCHANGED <<mem, t_pow, t_take_root, a, b, ret, reads, oob, libm>>

\* one iteration: sum += pow(fabs(a[i] - b[i]), t_pow); i++
Step(c) ==
  /\ pc[c] = "loop"
  /\ LoopCond(i[c], LoopBound(VecA(c), VecB(c)))
  /\ \E rb \in ReadElem(VecB(c), i[c]) :
       /\ reads' = [reads EXCEPT ![c] = Append(@, i[c])]
       /\ oob' = [oob EXCEPT ![c] = @ \/ i[c] >= Len(VecB(c))]
       /\ IF rb.trap
          THEN /\ pc' = [pc EXCEPT ![c] = "fault"]
               /\ UNCHANGED <<i, sum, libm>>
          ELSE \E t \in Term(libm, Elem(VecA(c), i[c]), rb.val, t_pow) :
                 /\ sum' = Accumulate(sum, c, t.val)
                 /\ libm' = t.lib
                 /\ i' = [i EXCEPT ![c] = @ + 1]
                 /\ UNCHANGED pc
  /\ UNCHANGED <<mem, t_pow, t_take_root, a, b, ret>>

\* loop exit and both return statements
Return(c) ==
  /\ pc[c] = "loop"
  /\ ~LoopCond(i[c], LoopBound(VecA(c), VecB(c)))
  /\ \E r \in Result(libm, sum[c], t_pow, t_take_root) :
       /\ ret' = [ret EXCEPT ![c] = r.val]
       /\ libm' = r.lib
  /\ pc' = [pc EXCEPT ![c] = "done"]
  /\ UNCHANGED <<mem, t_pow, t_take_root, a, b, i, sum, reads, oob>>

\* no call has started, and pow has not been called
Start ==
  /\ pc = [c \in Calls |-> "idle"]
  /\ i = [c \in Calls |-> 0]
  /\ sum = [c \in Calls |-> NaN]
  /\ ret = [c \in Calls |-> NaN]
  /\ reads = [c \in Calls |-> <<>>]
  /\ oob = [c \in Calls |-> FALSE]
  /\ libm = NoLib

\* one call, on any two vectors of the caller (also of different lengths, also
\* the same vector twice), under any instantiation of the template
Init ==
  /\ mem \in Mems
  /\ t_pow \in Powers
  /\ t_take_root \in BOOLEAN
  /\ a \in [{1} -> {"x", "y"}]
  /\ b \in [{1} -> {"x", "y"}]
  /\ Start

\* two calls that share the caller's vectors
InitConc ==
  /\ mem \in [{"x", "y"} -> ConcVectors]
  /\ t_pow \in Powers
  /\ t_take_root \in BOOLEAN
  /\ a \in [{1, 2} -> {"x", "y"}]
  /\ b \in [{1, 2} -> {"x", "y"}]
  /\ Start

\* two calls of the rooted metric, on (x, y) and on (z, w)
InitPair ==
  /\ mem \in PairMems
  /\ t_pow \in Powers
  /\ t_take_root = TRUE
  /\ a = (1 :> "x" @@ 2 :> "z")
  /\ b = (1 :> "y" @@ 2 :> "w")
  /\ Start

Next == \E c \in Calls : Call(c) \/ Step(c) \/ Return(c)

Spec == Init /\ [][Next]_vars
SpecConc == InitConc /\ [][Next]_vars
SpecPair == InitPair /\ [][Next]_vars

----------------------------------------------------------------------------
(* The properties.                                                          *)

\* call c was given two vectors of the same length
Equal(c) == Len(VecA(c)) = Len(VecB(c))
\* the indices 0 .. n - 1 in ascending order
Indices(n) == [k \in 1 .. n |-> k - 1]
\* the sum over the indices from k on of |va_k - vb_k|^p, as a natural number
\* of any size
RECURSIVE ExactSumFrom(_, _, _, _)
ExactSumFrom(va, vb, p, k) ==
  IF k > Len(va) THEN <<>>
  ELSE LET d == va[k] - vb[k]
       IN  BnAdd(BnPow(BnFromInt(IF d < 0 THEN -d ELSE d), p),
                 ExactSumFrom(va, vb, p, k + 1))
ExactSum(c) == ExactSumFrom(VecA(c), VecB(c), t_pow, 1)
\* the double x is the natural number n
IsExactly(x, n) == IsNum(x) /\ ~x.neg /\ x.e >= 0 /\ BnShl(x.m, x.e) = n
\* the double x >= 0 of integer value is the natural number n up to a relative
\* error of k / 2^52: k roundings of at most an ulp each
IsNearly(x, n, k) ==
  /\ IsNum(x) /\ ~x.neg /\ x.e >= 0
  /\ LET v == BnShl(x.m, x.e)
     IN  BnLe(BnShl(IF BnLe(v, n) THEN BnSub(n, v) ELSE BnSub(v, n), MantBits - 1),
              BnMulSmall(n, k))
\* what LMetric<t_pow, false> returns where call c returns ret[c]
Unrooted(c) == CHOOSE v \in {r.val : r \in Result(libm, sum[c], t_pow, FALSE)} : TRUE
\* r * r * ... * r, p factors, as the caller multiplies doubles
RECURSIVE Raise(_, _)
Raise(r, p) == IF p = 1 THEN r ELSE DMul(Raise(r, p - 1), r)
\* x is y up to a relative error of 2^-43: 1.0 / p is 1/p only up to 2^-53, which
\* the logarithm of the sum, below 710, multiplies; the roundings add little
Close(x, y) == DLe(fabs(DSub(x, y)), DMul(fabs(y), [neg |-> FALSE, m |-> <<1>>, e |-> -43]))
Both(s) == pc[1] = s /\ pc[2] = s
\* the values Evaluate can return on va and vb, pow being what it has been so far
Values(va, vb) == {o.val : o \in Evaluate(libm, va, vb, t_pow, t_take_root)}
\* on vectors of equal length call c neither faults nor stops early: while it
\* loops it has read the indices 0 .. i - 1 in ascending order, i <= a.n_elem,
\* and it returns after exactly a.n_elem iterations
LoopRuns(c) ==
  /\ pc[c] \in {"idle", "loop", "done"}
  /\ pc[c] = "loop" => i[c] <= Len(VecA(c)) /\ reads[c] = Indices(i[c])
  /\ pc[c] = "done" => i[c] = Len(VecA(c)) /\ reads[c] = Indices(Len(VecA(c)))

C3_RootedIsSquared ==
  \A c \in DOMAIN a :
    (Equal(c) /\ t_pow = 2 /\ t_take_root /\ pc[c] = "done") =>
      IsExactly(ret[c], ExactSum(c))

\* C4: a call on (a, b) and a call on (b, a) return the same value, for every
\* power and with or without the root
C4_Symmetric ==
  (VecA(1) = VecB(2) /\ VecB(1) = VecA(2) /\ Both("done")) => DEq(ret[1], ret[2])
\* the two calls have returned the same non-zero distance of [208069,3] and
\* [0,0] under the power 3, where pow has two values to choose from
C4_Witness ==
  /\ Both("done") /\ t_pow = 3
  /\ VecA(1) = <<208069, 3>> /\ VecB(1) = <<0, 0>>
  /\ VecA(2) = <<0, 0>> /\ VecB(2) = <<208069, 3>>
  /\ DEq(ret[1], ret[2]) /\ DLt(Zero, ret[1])

\* C5: a call whose two arguments are the same vector, or equal vectors, of any
\* length returns 0, for every power and with or without the root
C5_Identity ==
  \A c \in DOMAIN a :
    ((a[c] = b[c] \/ VecA(c) = VecB(c)) /\ pc[c] = "done") => DEq(ret[c], Zero)
\* the rooted metric has returned 0 for the vector [3,4] passed twice
C5_Witness ==
  /\ pc[1] = "done" /\ a[1] = b[1] /\ VecA(1) = <<3, 4>>
  /\ t_take_root /\ t_pow = 3 /\ reads[1] = <<0, 1>> /\ ret[1] = Zero

\* C6: on vectors of equal length sum is >= 0 in every state of the call, no
\* step of the call makes it smaller, and the value returned is >= 0, for
\* every power (odd ones too) and with or without the root
C6_SumNonNegative ==
  /\ [](\A c \in DOMAIN a :
          Equal(c) =>
            /\ pc[c] \in {"loop", "done"} => DLe(Zero, sum[c])
            /\ pc[c] = "done" => DLe(Zero, ret[c]))
  /\ [][\A c \in DOMAIN a :
          (Equal(c) /\ pc[c] = "loop") => DLe(sum[c], sum'[c])]_vars
\* under the power 3 the sum of [0,0] and [3,4], whose differences are
\* negative, has grown to 91
C6_Witness ==
  /\ pc[1] = "done" /\ t_pow = 3 /\ ~t_take_root
  /\ VecA(1) = <<0, 0>> /\ VecB(1) = <<3, 4>>
  /\ sum[1] = FromInt(91) /\ ret[1] = FromInt(91)

Scaled(k) == mem.z = Scale(k, mem.x) /\ mem.w = Scale(k, mem.y)
\* |k| * Evaluate(a, b), as the caller computes it
Times(k, r) == DMul(FromInt(IF k < 0 THEN -k ELSE k), r)
C9_NoLengthCheck ==
  \A c \in DOMAIN a :
    LET n == Len(VecA(c))
        m == Len(VecB(c))
    IN  /\ pc[c] \in {"idle", "loop", "done", "fault"}
        /\ pc[c] = "loop" => i[c] <= n /\ reads[c] = Indices(i[c])
        /\ pc[c] = "done" => reads[c] = Indices(n)
        /\ pc[c] = "fault" => m <= i[c] /\ i[c] < n /\ reads[c] = Indices(i[c] + 1)
        /\ (pc[c] = "done" /\ n <= m) =>
             /\ ~oob[c]
             /\ Values(VecA(c), SubSeq(VecB(c), 1, n)) = {ret[c]}
        /\ (pc[c] \in {"done", "fault"} /\ m < n) => oob[c]
        /\ oob[c] => m < n /\ \E k \in 1 .. Len(reads[c]) : reads[c][k] >= m
\* a call on [3,4] and the shorter [3] has returned after reading index 1 of b
C9_Witness ==
  /\ pc[1] = "done" /\ VecA(1) = <<3, 4>> /\ VecB(1) = <<3>>
  /\ reads[1] = <<0, 1>> /\ oob[1]

\* C10: calls whose steps interleave, on shared vectors too, each return the
\* value of the call run alone; no step changes the caller's vectors, the
\* template arguments or the bindings of a and b, pow stays the function it
\* was, and a step of one call leaves the position, the locals and the result
\* of the other as they were
C10_Pure ==
  /\ [](\A c \in DOMAIN a :
          pc[c] = "done" => Values(VecA(c), VecB(c)) = {ret[c]})
  /\ [][/\ UNCHANGED <<mem, t_pow, t_take_root, a, b>>
        /\ \A k \in DOMAIN libm : k \in DOMAIN libm' /\ libm'[k] = libm[k]
        /\ \A c \in Calls, d \in Calls :
             (c # d /\ <<pc[c], i[c], reads[c]>> # <<pc'[c], i'[c], reads'[c]>>) =>
               UNCHANGED <<pc[d], i[d], sum[d], ret[d], reads[d], oob[d]>>]_vars
\* both calls are in the middle of their loops over the same two vectors
C10_Witness ==
  /\ Both("loop") /\ i[1] = 1 /\ i[2] = 1
  /\ a[1] = a[2] /\ b[1] = b[2] /\ a[1] # b[1]
  /\ VecA(1) = <<3, 4>> /\ VecB(1) = <<0, 0>>
  /\ sum[1] = sum[2] /\ DLt(Zero, sum[1])
====
